---- MODULE Spec2Model ----
(***************************************************************************)
(* Multiagent-A2A: the chat handlers of the two host agents and the        *)
(* lifecycle of the Azure AI Foundry routing application, and the remote   *)
(* sports results agent.                                                   *)
(*                                                                         *)
(* A behaviour is one run of one program.  `program` says which:           *)
(*   "openai_host"     src/openai/host_agent/__main__.py: one turn of      *)
(*                     get_response_from_agent over a stream of events;    *)
(*   "aifoundry_host"  src/aifoundry/host_agent/__main__.py:               *)
(*                     RoutingAgentApp.run, its initialization, the chat   *)
(*                     calls the Gradio queue dispatches, and cleanup;     *)
(*   "remote_agent"    src/openai/remote_agents/sports_results_agent/      *)
(*                     agent.py: an OpenAIWebSearchAgent, its initialize   *)
(*                     and cleanup calls and one invoke or stream call;    *)
(*   "agent_server"    the __main__.py of a remote agent                   *)
(*                     (src/openai/remote_agents/sports_results_agent,     *)
(*                     src/aifoundry/remote_agents/sports_news_agent):     *)
(*                     main(host, port) builds the agent card and starts   *)
(*                     the server.                                         *)
(*                                                                         *)
(* A text is a sequence of tokens (each token a string), so that appending *)
(* and prefixes are those of the Python strings.                           *)
(***************************************************************************)
EXTENDS Integers, Sequences, FiniteSets, TLC

\* Longest event stream of a turn.
MaxEvents == 3
\* Number of chat messages the front end submits in a run of the application.
MaxCalls == 2
\* Number of cleanup calls in a run.
MaxCleanups == 2

VARIABLES
    program,           \* which program this behaviour runs
    \* ---- openai host: one turn of get_response_from_agent
    \*      (events, pc and i also serve the remote agent's invoke/stream call)
    events,            \* what stream_result.stream_events() delivers, in order
    pc,                \* position of the handler
    i,                 \* number of events consumed
    accumulated_text,  \* the local accumulated_text
    yielded,           \* the ChatMessages yielded so far, in order
    raised,            \* an exception left the handler
    fault,             \* where the turn's (or stream call's) first exception came from
    \* ---- aifoundry host: RoutingAgentApp
    env,               \* os.environ, restricted to the settings the app reads
    reachable,         \* the addresses whose agent card can be fetched
    phase,             \* position of run()
    routing_agent,     \* self.routing_agent: "None" or a reference "agent"
    agent,             \* the RoutingAgent object behind the reference
    missing_vars,      \* the settings run() reported missing
    network_calls,     \* network calls made so far
    calls,             \* the chat calls: position and yielded messages
    cleanups,          \* number of cleanup calls so far (also the remote agent's)
    \* ---- remote agent: OpenAIWebSearchAgent
    self_agent,        \* self.agent: "None" or "Agent"
    items,             \* the dicts the invoke or stream call has produced, in order
    \* ---- agent server: main(host, port) of a remote agent
    host,              \* the --host option
    port,              \* the --port option
    agent_card,        \* the card given to A2AStarletteApplication
    listening          \* the address uvicorn.run was given

host_vars == <<events, pc, i, accumulated_text, yielded, raised, fault>>
app_vars == <<env, reachable, phase, routing_agent, agent, missing_vars,
              network_calls, calls, cleanups>>
remote_vars == <<self_agent, items>>
server_vars == <<host, port, agent_card, listening>>
vars == <<program, host_vars, app_vars, remote_vars, server_vars>>

----------------------------------------------------------------------------
\* Texts

ChatMessage(site, content) == [role |-> "assistant", content |-> content, site |-> site]

NoResponseText == <<"No response received from the agent.">>
ErrorText ==
    <<"An error occurred while processing your request. Please check the server logs for details.">>
\* str(final_result) and str(stream_result) of the fallback
FinalResultText == <<"str(final_result)">>
StreamResultText == <<"str(stream_result)">>

----------------------------------------------------------------------------
\* openai host: the events of a stream, by the shape the handler probes

\* raw_response_event carrying a ResponseTextDeltaEvent with its delta
TextDeltaEvents == {[shape |-> "text_delta", text |-> t] : t \in {<<>>, <<"Hel">>, <<"lo">>}}
\* raw_response_event whose data has a str content
RawContentEvents == {[shape |-> "raw_content", text |-> t] : t \in {<<>>, <<"lo">>}}
\* an event of another type that has a str content
ContentEvents == {[shape |-> "content", text |-> <<"Hel">>]}
\* a bare str delivered as an event (it has no attribute `type`)
StrEvents == {[shape |-> "str", text |-> <<"lo">>]}
\* events without text:
\*   raw_completed  raw_response_event whose data is the response's completion
\*                  marker (no delta, no content): the terminal event
\*   agent_updated  agent_updated_stream_event, informational
\*   run_item       run_item_stream_event, informational
\*   unknown        an object with an unrecognized `type` and no content
\*   no_type        an object with no attribute `type` and no content
OtherShapes == {"raw_completed", "agent_updated", "run_item", "unknown", "no_type"}
OtherEvents == {[shape |-> s, text |-> <<>>] : s \in OtherShapes}

StreamEvent == TextDeltaEvents \cup RawContentEvents \cup ContentEvents
                   \cup StrEvents \cup OtherEvents

EventSeqs == UNION {[1..n -> StreamEvent] : n \in 0..MaxEvents}

\* hasattr(event, 'type')
HasType(event) == event.shape \notin {"str", "no_type"}

\* HandleEvent with a text-delta that replaces the text instead of extending it.
HandleEventReplacing(event, text) ==
    IF ~HasType(event)
    THEN [raises |-> TRUE, text |-> text, yields |-> FALSE]
    ELSE IF event.shape \in {"text_delta", "raw_content", "content"} /\ event.text # <<>>
    THEN [raises |-> FALSE, text |-> event.text, yields |-> TRUE]
    ELSE [raises |-> FALSE, text |-> text, yields |-> FALSE]

\* The body of the `async for` for one event, lines 53-108: whether it raises,
\* the accumulated text after it and whether it yields a ChatMessage.
HandleEvent(event, text) ==
    IF ~HasType(event)
    THEN \* line 54 reads event.type unguarded: AttributeError
         [raises |-> TRUE, text |-> text, yields |-> FALSE]
    ELSE IF event.shape = "text_delta"
    THEN IF event.text # <<>>
         THEN [raises |-> FALSE, text |-> text \o event.text, yields |-> TRUE]
         ELSE [raises |-> FALSE, text |-> text, yields |-> FALSE]
    ELSE IF event.shape = "raw_content"
    THEN [raises |-> FALSE, text |-> text \o event.text, yields |-> TRUE]
    ELSE IF event.shape = "raw_completed"
    THEN [raises |-> FALSE, text |-> text, yields |-> FALSE]
    ELSE IF event.shape = "agent_updated"
    THEN [raises |-> FALSE, text |-> text, yields |-> FALSE]
    ELSE IF event.shape = "content"
    THEN [raises |-> FALSE, text |-> text \o event.text, yields |-> TRUE]
    ELSE \* run_item, unknown: logged only
         [raises |-> FALSE, text |-> text, yields |-> FALSE]

\* The `async for` over a whole stream that closes normally: the accumulated
\* text when the loop is left and whether an event made it fail.
RECURSIVE Aggregate(_, _)
Aggregate(evs, text) ==
    IF evs = <<>>
    THEN [failed |-> FALSE, text |-> text]
    ELSE LET r == HandleEvent(Head(evs), text)
         IN  IF r.raises
             THEN [failed |-> TRUE, text |-> text]
             ELSE Aggregate(Tail(evs), r.text)

----------------------------------------------------------------------------
\* openai host: get_response_from_agent, one action per stretch between
\* suspension points

\* outer_except without its yield: the exception leaves the handler.
outer_except_reraises ==
    /\ yielded' = yielded
    /\ raised' = TRUE
    /\ pc' = "done"

\* Lines 143-149: the outer handler turns the exception into the error message.
outer_except ==
    /\ yielded' = Append(yielded, ChatMessage("error", ErrorText))
    /\ raised' = raised
    /\ pc' = "done"

\* Lines 36-47: Runner.run_streamed(routing_agent, message) returns the
\* streaming result or raises.
run_streamed ==
    /\ program = "openai_host"
    /\ pc = "start"
    /\ \E starts \in BOOLEAN :
          IF starts
          THEN /\ pc' = "stream"
               /\ UNCHANGED <<yielded, raised, fault>>
          ELSE /\ fault' = "start"
               /\ outer_except
    /\ UNCHANGED <<program, events, i, accumulated_text, app_vars, remote_vars,
                   server_vars>>

\* Lines 52-108: the stream delivers its next event and the loop body handles it.
stream_event ==
    /\ program = "openai_host"
    /\ pc = "stream"
    /\ i < Len(events)
    /\ LET r == HandleEvent(events[i + 1], accumulated_text)
       IN  /\ i' = i + 1
           /\ accumulated_text' = r.text
           /\ yielded' = IF r.yields
                         THEN Append(yielded, ChatMessage("stream", r.text))
                         ELSE yielded
           /\ IF r.raises
              THEN pc' = "fallback" /\ fault' = "event"
              ELSE pc' = "stream" /\ fault' = fault
    /\ UNCHANGED <<program, events, raised, app_vars, remote_vars,
                   server_vars>>

\* Line 52, after the last event: the stream closes (the loop is left) or the
\* stream itself raises (line 110).
stream_end ==
    /\ program = "openai_host"
    /\ pc = "stream"
    /\ i = Len(events)
    /\ \E closes \in BOOLEAN :
          IF closes
          THEN pc' = "completed" /\ fault' = fault
          ELSE pc' = "fallback" /\ fault' = "stream"
    /\ UNCHANGED <<program, events, i, accumulated_text, yielded, raised, app_vars, remote_vars,
                   server_vars>>

\* Lines 110-132: the fallback after a failed stream.  With a `result` method
\* the awaited final result is yielded when truthy, and an exception of the
\* fallback is swallowed; without one, str(stream_result) is yielded.
fallback ==
    /\ program = "openai_host"
    /\ pc = "fallback"
    /\ \E has_result \in BOOLEAN, final_result \in {"raises", "falsy", "truthy"} :
          yielded' =
              IF has_result
              THEN IF final_result = "truthy"
                   THEN Append(yielded, ChatMessage("fallback", FinalResultText))
                   ELSE yielded
              ELSE Append(yielded, ChatMessage("fallback", StreamResultText))
    /\ pc' = "completed"
    /\ UNCHANGED <<program, events, i, accumulated_text, raised, fault, app_vars, remote_vars,
                   server_vars>>

\* stream_completed without the placeholder.
stream_completed_silent ==
    /\ program = "openai_host"
    /\ pc = "completed"
    /\ pc' = "done"
    /\ UNCHANGED <<program, events, i, accumulated_text, yielded, raised, fault, app_vars, remote_vars,
                   server_vars>>

\* stream_completed that stores the placeholder in accumulated_text too.
stream_completed_stores ==
    /\ program = "openai_host"
    /\ pc = "completed"
    /\ yielded' = IF accumulated_text = <<>>
                  THEN Append(yielded, ChatMessage("placeholder", NoResponseText))
                  ELSE yielded
    /\ accumulated_text' = IF accumulated_text = <<>> THEN NoResponseText
                           ELSE accumulated_text
    /\ pc' = "done"
    /\ UNCHANGED <<program, events, i, raised, fault, app_vars, remote_vars,
                   server_vars>>

\* The placeholder yielded whatever was accumulated.
stream_completed_always ==
    /\ program = "openai_host"
    /\ pc = "completed"
    /\ yielded' = Append(yielded, ChatMessage("placeholder", NoResponseText))
    /\ pc' = "done"
    /\ UNCHANGED <<program, events, i, accumulated_text, raised, fault, app_vars, remote_vars,
                   server_vars>>

\* Lines 134-142: nothing accumulated, so the placeholder is yielded.
stream_completed ==
    /\ program = "openai_host"
    /\ pc = "completed"
    /\ yielded' = IF accumulated_text = <<>>
                  THEN Append(yielded, ChatMessage("placeholder", NoResponseText))
                  ELSE yielded
    /\ pc' = "done"
    /\ UNCHANGED <<program, events, i, accumulated_text, raised, fault, app_vars, remote_vars,
                   server_vars>>

----------------------------------------------------------------------------
\* aifoundry host: the environment and the texts of RoutingAgentApp

required_env_vars == <<"AZURE_AI_AGENT_ENDPOINT", "AZURE_AI_AGENT_MODEL_DEPLOYMENT_NAME">>

Range(seq) == {seq[k] : k \in 1..Len(seq)}

\* os.getenv(var) of a variable that is not set
NotSet == "None"

\* The environments: a required setting is not set, empty, or has a value;
\* an address is not set (the default applies) or overridden.
Environments ==
    {r @@ u : r \in [Range(required_env_vars) -> {NotSet, "", "value"}],
              u \in {[SPORTS_RESULTS_URL |-> a, SPORTS_NEWS_URL |-> b] :
                         a \in {NotSet, "http://results.example:10001"},
                         b \in {NotSet, "http://news.example:10002"}}}

\* os.getenv(var, default)
Getenv(e, var, default) ==
    IF var \in DOMAIN e /\ e[var] # NotSet THEN e[var] ELSE default

\* bool(os.getenv(var))
Truthy(e, var) == Getenv(e, var, NotSet) \notin {NotSet, ""}

\* remote_agent_addresses with the second address left out.
remote_agent_addresses_first_only(e) ==
    <<Getenv(e, "SPORTS_RESULTS_URL", "http://localhost:10001")>>

\* Lines 37-40: the addresses handed to RoutingAgent.create
remote_agent_addresses(e) ==
    <<Getenv(e, "SPORTS_RESULTS_URL", "http://localhost:10001"),
      Getenv(e, "SPORTS_NEWS_URL", "http://localhost:10002")>>

\* The addresses an agent may be reachable at: the defaults and the overrides.
Addresses == {"http://localhost:10001", "http://localhost:10002",
              "http://results.example:10001", "http://news.example:10002"}

NotInitializedText ==
    <<"Error: Routing agent not initialized. Please restart the application.">>
ProcessingText == <<"Processing your request...">>
ResponseText == <<"response">>
NoResponseAppText == <<"Error: No response received from the agent.">>
ErrorAppText == <<"An error occurred: ", "str(e)", "Please check the server logs for details.">>

\* A RoutingAgent that was never created.
NoAgent == [created |-> FALSE, cards |-> {}, azure_agent |-> FALSE,
            cleanup_calls |-> 0]

\* A chat call the front end has not submitted yet.
IdleCall == [pc |-> "idle", yielded |-> <<>>, response |-> "none"]

Call == 1..MaxCalls

\* RoutingAgent.create: the registry built from the addresses.  An address
\* whose card cannot be fetched is skipped; the build fails when none succeeds.
BuildRegistry(addresses, reach) ==
    LET cards == {a \in Range(addresses) : a \in reach}
    IN  [ok |-> cards # {}, cards |-> cards, fetches |-> Len(addresses)]

----------------------------------------------------------------------------
\* aifoundry host: RoutingAgentApp.run and what it calls

\* run() that reports the missing settings and goes on.
run_goes_on ==
    /\ program = "aifoundry_host"
    /\ phase = "start"
    /\ missing_vars' = SelectSeq(required_env_vars, LAMBDA var : ~Truthy(env, var))
    /\ phase' = "checked"
    /\ UNCHANGED <<program, host_vars, remote_vars, server_vars, env, reachable, routing_agent, agent,
                   network_calls, calls, cleanups>>

\* Lines 152-166: the required settings are checked; run() returns when one
\* is missing.
run ==
    /\ program = "aifoundry_host"
    /\ phase = "start"
    /\ missing_vars' = SelectSeq(required_env_vars, LAMBDA var : ~Truthy(env, var))
    /\ phase' = IF missing_vars' # <<>> THEN "returned" ELSE "checked"
    /\ UNCHANGED <<program, host_vars, remote_vars, server_vars, env, reachable, routing_agent, agent,
                   network_calls, calls, cleanups>>

\* Lines 30-50, called at line 175 outside run()'s try: the RoutingAgent is
\* created and assigned, then its Azure agent is created.  Either step may
\* raise; the exception is logged and re-raised, and leaves run().
initialize_routing_agent ==
    /\ program = "aifoundry_host"
    /\ phase = "checked"
    /\ LET registry == BuildRegistry(remote_agent_addresses(env), reachable)
       IN  IF ~registry.ok
           THEN /\ network_calls' = network_calls + registry.fetches
                /\ phase' = "failed"
                /\ UNCHANGED <<routing_agent, agent>>
           ELSE /\ routing_agent' = "agent"
                /\ network_calls' = network_calls + registry.fetches + 1
                /\ \E created \in BOOLEAN :
                      /\ agent' = [created |-> TRUE, cards |-> registry.cards,
                                   azure_agent |-> created, cleanup_calls |-> 0]
                      /\ phase' = IF created THEN "serving" ELSE "failed"
    /\ UNCHANGED <<program, host_vars, remote_vars, server_vars, env, reachable, missing_vars, calls, cleanups>>

\* cleanup_routing_agent that clears the reference only after a cleanup that
\* did not raise (no finally).
cleanup_routing_agent_no_finally(cleanup_raises) ==
    /\ cleanups' = cleanups + 1
    /\ IF routing_agent # "None"
       THEN /\ agent' = [agent EXCEPT !.cleanup_calls = @ + 1]
            /\ routing_agent' = IF cleanup_raises THEN routing_agent ELSE "None"
       ELSE UNCHANGED <<routing_agent, agent>>

\* Lines 52-61: the agent's cleanup is called when the reference is set; the
\* reference is cleared whether or not the cleanup raised.
cleanup_routing_agent(cleanup_raises) ==
    /\ cleanups' = cleanups + 1
    /\ IF routing_agent # "None"
       THEN /\ agent' = [agent EXCEPT !.cleanup_calls = @ + 1]
            /\ routing_agent' = "None"
       ELSE UNCHANGED <<routing_agent, agent>>

\* Lines 177-193: the interface is launched; when launch() returns or raises,
\* the finally block cleans up.
run_finally ==
    /\ program = "aifoundry_host"
    /\ phase = "serving"
    /\ \E cleanup_raises \in BOOLEAN : cleanup_routing_agent(cleanup_raises)
    /\ phase' = "closed"
    /\ UNCHANGED <<program, host_vars, remote_vars, server_vars, env, reachable, missing_vars,
                   network_calls, calls>>

\* A further call of cleanup_routing_agent after run()'s own.
cleanup_again ==
    /\ program = "aifoundry_host"
    /\ phase = "closed"
    /\ cleanups < MaxCleanups
    /\ \E cleanup_raises \in BOOLEAN : cleanup_routing_agent(cleanup_raises)
    /\ UNCHANGED <<program, host_vars, remote_vars, server_vars, env, reachable, phase, missing_vars,
                   network_calls, calls>>

\* The interface was launched (line 182); it may go on serving while run()
\* is in its finally block.
Launched == phase \in {"serving", "closed"}

\* Line 182: demo.queue() is given no limit, so the queue's default applies:
\* one running call of an event's function at a time.
default_concurrency_limit == 1

\* The calls of get_response_from_agent that are running.
Running == {c \in Call : calls[c].pc = "awaiting"}

\* The front end submits a message: the call enters the Gradio queue.
submit(c) ==
    /\ program = "aifoundry_host"
    /\ Launched
    /\ calls[c].pc = "idle"
    /\ calls' = [calls EXCEPT ![c].pc = "queued"]
    /\ UNCHANGED <<program, host_vars, remote_vars, server_vars, env, reachable, phase, routing_agent,
                   agent, missing_vars, network_calls, cleanups>>

\* get_response_from_agent started for every submitted call at once (no queue).
get_response_from_agent_unqueued(c) ==
    /\ program = "aifoundry_host"
    /\ Launched
    /\ calls[c].pc = "queued"
    /\ calls' =
          IF routing_agent = "None"
          THEN [calls EXCEPT ![c].pc = "done",
                             ![c].yielded = Append(@, ChatMessage("not_initialized",
                                                                   NotInitializedText))]
          ELSE [calls EXCEPT ![c].pc = "awaiting",
                             ![c].yielded = Append(@, ChatMessage("processing",
                                                                   ProcessingText))]
    /\ UNCHANGED <<program, host_vars, remote_vars, server_vars, env, reachable, phase, routing_agent,
                   agent, missing_vars, network_calls, cleanups>>

\* get_response_from_agent without the check of self.routing_agent.
get_response_from_agent_unchecked(c) ==
    /\ program = "aifoundry_host"
    /\ Launched
    /\ calls[c].pc = "queued"
    /\ Cardinality(Running) < default_concurrency_limit
    /\ calls' = [calls EXCEPT ![c].pc = "awaiting",
                              ![c].yielded = Append(@, ChatMessage("processing",
                                                                    ProcessingText))]
    /\ UNCHANGED <<program, host_vars, remote_vars, server_vars, env, reachable, phase, routing_agent,
                   agent, missing_vars, network_calls, cleanups>>

\* Line 182, demo.queue(): the queue starts a waiting call of the chat
\* function while fewer than its concurrency limit are running.
\* Lines 63-84: without a routing agent the call yields the error and
\* returns; otherwise it yields the progress message and awaits
\* process_user_message.
get_response_from_agent(c) ==
    /\ program = "aifoundry_host"
    /\ Launched
    /\ calls[c].pc = "queued"
    /\ Cardinality(Running) < default_concurrency_limit
    /\ calls' =
          IF routing_agent = "None"
          THEN [calls EXCEPT ![c].pc = "done",
                             ![c].yielded = Append(@, ChatMessage("not_initialized",
                                                                   NotInitializedText))]
          ELSE [calls EXCEPT ![c].pc = "awaiting",
                             ![c].yielded = Append(@, ChatMessage("processing",
                                                                   ProcessingText))]
    /\ UNCHANGED <<program, host_vars, remote_vars, server_vars, env, reachable, phase, routing_agent,
                   agent, missing_vars, network_calls, cleanups>>

\* Lines 84-104: process_user_message returns a response, returns nothing,
\* or raises; each ends the call with one more message.
process_user_message(c) ==
    /\ program = "aifoundry_host"
    /\ calls[c].pc = "awaiting"
    /\ \E response \in {"text", "empty", "raises"} :
          calls' = [calls EXCEPT
              ![c].pc = "done",
              ![c].response = response,
              ![c].yielded = Append(@,
                  IF response = "text" THEN ChatMessage("response", ResponseText)
                  ELSE IF response = "empty"
                  THEN ChatMessage("placeholder", NoResponseAppText)
                  ELSE ChatMessage("error", ErrorAppText))]
    /\ UNCHANGED <<program, host_vars, remote_vars, server_vars, env, reachable, phase, routing_agent,
                   agent, missing_vars, network_calls, cleanups>>

----------------------------------------------------------------------------
\* remote agent: OpenAIWebSearchAgent (agent.py)

\* The dict that invoke returns and stream yields.
Item(is_task_complete, require_user_input, content) ==
    [is_task_complete |-> is_task_complete,
     require_user_input |-> require_user_input,
     content |-> content]

AgentNotInitializedItem ==
    Item(FALSE, TRUE, <<"Agent not initialized. Please call initialize() first.">>)
ErrorItem == Item(FALSE, TRUE, <<"Error processing request: ", "str(e)">>)
CompletionItem == Item(TRUE, FALSE, <<"Task completed successfully.">>)
FinalOutputItem == Item(TRUE, FALSE, <<"result.final_output">>)

\* The streams a stream call may meet: one event of each kind the loop tells
\* apart (a text-delta with and without text) and of those it passes over.
RemoteStreamEvent ==
    TextDeltaEvents \cup
    {[shape |-> "raw_content", text |-> <<"lo">>],
     [shape |-> "raw_completed", text |-> <<>>],
     [shape |-> "no_type", text |-> <<>>]}

RemoteEventSeqs == UNION {[1..n -> RemoteStreamEvent] : n \in 0..MaxEvents}

\* Lines 36-51: the Agent is constructed and stored; when the construction
\* raises, cleanup() is awaited and the exception re-raised.
initialize ==
    /\ program = "remote_agent"
    /\ pc = "idle"
    /\ \E constructed \in BOOLEAN :
          IF constructed
          THEN /\ self_agent' = "Agent"
               /\ UNCHANGED cleanups
          ELSE /\ cleanups < MaxCleanups
               /\ self_agent' = "None"
               /\ cleanups' = cleanups + 1
    /\ UNCHANGED <<program, host_vars, server_vars, items, env, reachable, phase, routing_agent,
                   agent, missing_vars, network_calls, calls>>

\* Lines 158-161: cleanup() drops the agent.
cleanup ==
    /\ program = "remote_agent"
    /\ cleanups < MaxCleanups
    /\ self_agent' = "None"
    /\ cleanups' = cleanups + 1
    /\ UNCHANGED <<program, host_vars, server_vars, items, env, reachable, phase, routing_agent,
                   agent, missing_vars, network_calls, calls>>

\* Lines 53-96: invoke returns the not-initialized dict without an agent,
\* the final output of Runner.run, or the error dict when the run raises.
invoke ==
    /\ program = "remote_agent"
    /\ pc = "idle"
    /\ \E runs \in BOOLEAN :
          items' = <<IF self_agent = "None" THEN AgentNotInitializedItem
                     ELSE IF runs THEN FinalOutputItem
                     ELSE ErrorItem>>
    /\ pc' = "returned"
    /\ UNCHANGED <<program, events, i, accumulated_text, yielded, raised, fault,
                   app_vars, self_agent, server_vars>>

\* Lines 112-125: stream yields the not-initialized dict and returns when no
\* agent is set; otherwise Runner.run_streamed starts the run or raises.
stream ==
    /\ program = "remote_agent"
    /\ pc = "idle"
    /\ \E starts \in BOOLEAN :
          IF self_agent = "None"
          THEN items' = <<AgentNotInitializedItem>> /\ pc' = "exhausted" /\ fault' = fault
          ELSE IF starts
          THEN items' = items /\ pc' = "streaming" /\ fault' = fault
          ELSE items' = <<ErrorItem>> /\ pc' = "exhausted" /\ fault' = "start"
    /\ UNCHANGED <<program, events, i, accumulated_text, yielded, raised,
                   app_vars, self_agent, server_vars>>

\* Lines 127-143: the next event; a text-delta with text is yielded as an
\* item that is not complete, any other event is passed over.
stream_item ==
    /\ program = "remote_agent"
    /\ pc = "streaming"
    /\ i < Len(events)
    /\ i' = i + 1
    /\ items' = IF events[i + 1].shape = "text_delta" /\ events[i + 1].text # <<>>
                THEN Append(items, Item(FALSE, FALSE, events[i + 1].text))
                ELSE items
    /\ UNCHANGED <<program, events, pc, accumulated_text, yielded, raised, fault,
                   app_vars, self_agent, server_vars>>

\* stream with the completion item yielded after the try statement, so
\* also after the error item.
stream_finish_after_except ==
    /\ program = "remote_agent"
    /\ pc = "streaming"
    /\ i = Len(events)
    /\ \E closes \in BOOLEAN :
          IF closes
          THEN items' = Append(items, CompletionItem) /\ fault' = fault
          ELSE items' = Append(Append(items, ErrorItem), CompletionItem) /\ fault' = "stream"
    /\ pc' = "exhausted"
    /\ UNCHANGED <<program, events, i, accumulated_text, yielded, raised,
                   app_vars, self_agent, server_vars>>

\* Lines 145-156: the stream closes and the completion item is yielded, or
\* the stream raises (in the model after the events it delivered) and the
\* error item is yielded.
stream_finish ==
    /\ program = "remote_agent"
    /\ pc = "streaming"
    /\ i = Len(events)
    /\ \E closes \in BOOLEAN :
          IF closes
          THEN items' = Append(items, CompletionItem) /\ fault' = fault
          ELSE items' = Append(items, ErrorItem) /\ fault' = "stream"
    /\ pc' = "exhausted"
    /\ UNCHANGED <<program, events, i, accumulated_text, yielded, raised,
                   app_vars, self_agent, server_vars>>

----------------------------------------------------------------------------
\* agent server: main and get_agent_card of the two remote agents

\* The values of --host and --port: each command's defaults and others.
Hosts == {"localhost", "agents.example"}
Ports == {10001, 10002, 8080}

Url(scheme, h, p) == [scheme |-> scheme, host |-> h, port |-> p]

NoCard == [name |-> "None"]
NoAddress == [host |-> "None", port |-> 0]

\* sports_results_agent/__main__.py lines 40-72: the card's url is the
\* literal 'http://localhost:10001/'; the parameters are not used.
sports_results_get_agent_card(h, p) ==
    [name |-> "SportsResultsAgent",
     url |-> Url("http", "localhost", 10001),
     streaming |-> TRUE]

\* sports_news_agent/__main__.py lines 40-72: the card's url is the literal
\* 'http://localhost:10002/'; the parameters are not used.
sports_news_get_agent_card(h, p) ==
    [name |-> "SportsNewsAgent",
     url |-> Url("http", "localhost", 10002),
     streaming |-> TRUE]

\* sports_results_agent/__main__.py lines 20-37: main builds the application
\* around get_agent_card(host, port) and runs it at host and port.
sports_results_main ==
    /\ program = "agent_server"
    /\ pc = "sports_results_agent"
    /\ agent_card' = sports_results_get_agent_card(host, port)
    /\ listening' = [host |-> host, port |-> port]
    /\ pc' = "serving"
    /\ UNCHANGED <<program, events, i, accumulated_text, yielded, raised, fault,
                   app_vars, remote_vars, host, port>>

\* sports_news_agent/__main__.py lines 20-37: the same for the news agent.
sports_news_main ==
    /\ program = "agent_server"
    /\ pc = "sports_news_agent"
    /\ agent_card' = sports_news_get_agent_card(host, port)
    /\ listening' = [host |-> host, port |-> port]
    /\ pc' = "serving"
    /\ UNCHANGED <<program, events, i, accumulated_text, yielded, raised, fault,
                   app_vars, remote_vars, host, port>>

----------------------------------------------------------------------------
\* The runs

InitHostVars ==
    /\ events = <<>>
    /\ pc = "off"
    /\ i = 0
    /\ accumulated_text = <<>>
    /\ yielded = <<>>
    /\ raised = FALSE
    /\ fault = "none"

InitRemoteVars ==
    /\ self_agent = "None"
    /\ items = <<>>

InitServerVars ==
    /\ host = "None"
    /\ port = 0
    /\ agent_card = NoCard
    /\ listening = NoAddress

InitAppVars ==
    /\ env = [var \in {} |-> NotSet]
    /\ reachable = {}
    /\ phase = "off"
    /\ routing_agent = "None"
    /\ agent = NoAgent
    /\ missing_vars = <<>>
    /\ network_calls = 0
    /\ calls = [c \in Call |-> IdleCall]
    /\ cleanups = 0

\* A turn of the openai host over any stream of events.
InitOpenAIHost ==
    /\ program = "openai_host"
    /\ events \in EventSeqs
    /\ pc = "start"
    /\ i = 0
    /\ accumulated_text = <<>>
    /\ yielded = <<>>
    /\ raised = FALSE
    /\ fault = "none"
    /\ InitAppVars
    /\ InitRemoteVars
    /\ InitServerVars

\* RoutingAgentApp() in any environment (lines 26-28).
InitAIFoundryHost ==
    /\ program = "aifoundry_host"
    /\ InitHostVars
    /\ env \in Environments
    /\ reachable \in SUBSET Addresses
    /\ phase = "start"
    /\ routing_agent = "None"
    /\ agent = NoAgent
    /\ missing_vars = <<>>
    /\ network_calls = 0
    /\ calls = [c \in Call |-> IdleCall]
    /\ cleanups = 0
    /\ InitRemoteVars
    /\ InitServerVars

\* OpenAIWebSearchAgent() (lines 33-34) and the stream its call will meet.
InitRemoteAgent ==
    /\ program = "remote_agent"
    /\ events \in RemoteEventSeqs
    /\ pc = "idle"
    /\ i = 0
    /\ accumulated_text = <<>>
    /\ yielded = <<>>
    /\ raised = FALSE
    /\ fault = "none"
    /\ InitAppVars
    /\ InitRemoteVars
    /\ InitServerVars

\* The command of either remote agent with any --host and --port.
InitAgentServer ==
    /\ program = "agent_server"
    /\ events = <<>>
    /\ pc \in {"sports_results_agent", "sports_news_agent"}
    /\ i = 0
    /\ accumulated_text = <<>>
    /\ yielded = <<>>
    /\ raised = FALSE
    /\ fault = "none"
    /\ InitAppVars
    /\ InitRemoteVars
    /\ host \in Hosts
    /\ port \in Ports
    /\ agent_card = NoCard
    /\ listening = NoAddress

Init == InitOpenAIHost \/ InitAIFoundryHost \/ InitRemoteAgent \/ InitAgentServer

Next ==
    \/ run_streamed
    \/ stream_event
    \/ stream_end
    \/ fallback
    \/ stream_completed
    \/ run
    \/ initialize_routing_agent
    \/ run_finally
    \/ cleanup_again
    \/ \E c \in Call : submit(c)
    \/ \E c \in Call : get_response_from_agent(c)
    \/ \E c \in Call : process_user_message(c)
    \/ initialize
    \/ cleanup
    \/ invoke
    \/ stream
    \/ stream_item
    \/ stream_finish
    \/ sports_results_main
    \/ sports_news_main

Spec == Init /\ [][Next]_vars

----------------------------------------------------------------------------
\* Vocabulary of the properties

Last(seq) == seq[Len(seq)]

IsPrefix(s, t) == Len(s) <= Len(t) /\ SubSeq(t, 1, Len(s)) = s

\* The turn of the openai host is over.
TurnDone == program = "openai_host" /\ pc = "done"

\* An event that carries text for the reply (the text-delta of the design).
IsTextDelta(event) == event.shape \in {"text_delta", "raw_content", "content"}

\* An event of unrecognized shape: neither text, nor informational, nor the
\* completion marker.
IsUnknown(event) == event.shape \in {"unknown", "no_type"}

\* The messages the event loop yielded.
StreamMessages == SelectSeq(yielded, LAMBDA m : m.site = "stream")

InPrefixOrder(messages) ==
    \A k \in 1..(Len(messages) - 1) :
        IsPrefix(messages[k].content, messages[k + 1].content)

RemoveAt(seq, k) == SubSeq(seq, 1, k - 1) \o SubSeq(seq, k + 1, Len(seq))

\* The configured addresses, read from the environment.
Configured ==
    {Getenv(env, "SPORTS_RESULTS_URL", "http://localhost:10001"),
     Getenv(env, "SPORTS_NEWS_URL", "http://localhost:10002")}

----------------------------------------------------------------------------
\* C1: whatever fails in a turn (starting the run, iterating the stream, the
\* fallback, process_user_message), the chat handler ends without an
\* exception leaving it and has yielded at least one assistant message.
C1_AlwaysReplies ==
    /\ TurnDone => (~raised /\ Len(yielded) >= 1)
    /\ \A c \in Call : calls[c].pc = "done" => Len(calls[c].yielded) >= 1

\* C1 witness: a turn in which the run could not even be started has ended
\* with the error message.
C1_Witness ==
    /\ TurnDone
    /\ fault = "start"
    /\ yielded = <<ChatMessage("error", ErrorText)>>

C3_EveryMessageExtends ==
    [][ /\ IsPrefix(accumulated_text, accumulated_text')
        /\ InPrefixOrder(yielded') ]_vars

\* C3 as amended: the accumulated text only grows by appending, and every
\* message the event loop yields extends the message yielded before it; the
\* fallback's message need not.
C3_StreamedTextGrows ==
    [][ /\ IsPrefix(accumulated_text, accumulated_text')
        /\ InPrefixOrder(StreamMessages')
        /\ pc' = "stream" => StreamMessages' = yielded' ]_vars

\* C3 witness: the event loop has yielded two messages, the second longer.
C3_Witness ==
    /\ TurnDone
    /\ Len(StreamMessages) >= 2
    /\ Len(StreamMessages[1].content) < Len(StreamMessages[2].content)

\* C4: an event of unrecognized shape between two text-deltas is skipped:
\* the aggregation does not fail on it, and its result is the result of the
\* stream without that event.
C4_UnknownEventSkipped ==
    (TurnDone /\ fault \in {"none", "event"}) =>
        \A k \in 2..(Len(events) - 1) :
            (/\ IsUnknown(events[k])
             /\ IsTextDelta(events[k - 1])
             /\ IsTextDelta(events[k + 1])) =>
                [failed |-> fault = "event", text |-> accumulated_text]
                    = Aggregate(RemoveAt(events, k), <<>>)

\* The completion marker is among the events consumed so far.
TerminalSeen ==
    /\ program \in {"openai_host", "remote_agent"}
    /\ \E k \in 1..i : events[k].shape = "raw_completed"

\* The text items the remote agent's stream call has yielded.
TextItems == SelectSeq(items, LAMBDA item : ~item.is_task_complete /\ ~item.require_user_input)

\* C5 as claimed: once the completion marker has been consumed, the
\* accumulated text does not change and the event loop yields nothing more
\* (in the host's handler and in the remote agent's stream).
C5_StopsAtTerminalEvent ==
    [][ TerminalSeen =>
            /\ accumulated_text' = accumulated_text
            /\ StreamMessages' = StreamMessages
            /\ TextItems' = TextItems ]_vars

\* C5 as amended: events are consumed until the stream ends; once the loop is
\* left no event is consumed, the accumulated text does not change and the
\* event loop yields nothing more.
C5_StopsAtStreamEnd ==
    [][ /\ (program = "openai_host" /\ pc \in {"completed", "fallback", "done"}) =>
              /\ i' = i
              /\ accumulated_text' = accumulated_text
              /\ StreamMessages' = StreamMessages
        /\ (program = "remote_agent" /\ pc = "exhausted") =>
              /\ i' = i
              /\ items' = items ]_vars

\* C5 witness: a turn is over in which text arrived after the completion
\* marker and was appended.
C5_Witness ==
    /\ TurnDone
    /\ fault = "none"
    /\ \E k \in 1..(Len(events) - 1) :
          /\ events[k].shape = "raw_completed"
          /\ events[k + 1].shape = "text_delta"
          /\ events[k + 1].text # <<>>
    /\ accumulated_text # <<>>

\* C6: with a required setting absent, run() goes no further than the check:
\* it reports exactly the required settings that are absent or empty, no
\* routing agent exists and no network call has been made.
C6_MissingSettingsReported ==
    (program = "aifoundry_host" /\ phase # "start") =>
        LET required == {"AZURE_AI_AGENT_ENDPOINT", "AZURE_AI_AGENT_MODEL_DEPLOYMENT_NAME"}
            absent == {var \in required : env[var] = NotSet}
            empty == {var \in required : env[var] = ""}
        IN  /\ Range(missing_vars) = absent \cup empty
            /\ Len(missing_vars) = Cardinality(absent \cup empty)
            /\ absent # {} =>
                  /\ phase = "returned"
                  /\ routing_agent = "None"
                  /\ ~agent.created
                  /\ network_calls = 0

\* C6 witness: run() has returned having reported the one absent setting.
C6_Witness ==
    /\ program = "aifoundry_host"
    /\ phase = "returned"
    /\ missing_vars = <<"AZURE_AI_AGENT_MODEL_DEPLOYMENT_NAME">>
    /\ env["AZURE_AI_AGENT_MODEL_DEPLOYMENT_NAME"] = NotSet

\* C7: after a failed initialization the application's routing-agent
\* reference is not set, and no message is processed by a routing agent
\* whose Azure agent was not created.
C7_NoPartialRouter ==
    program = "aifoundry_host" =>
        /\ phase = "failed" => routing_agent = "None"
        /\ \A c \in Call : calls[c].pc = "awaiting" => agent.azure_agent

\* C8: the routing agent's cleanup is called at most once, and a call of
\* cleanup_routing_agent after the first changes neither the reference nor
\* the agent; a cleanup of the remote agent leaves no agent set, and changes
\* nothing when none was set.
C8_CleanupIdempotent ==
    /\ [](agent.cleanup_calls <= 1)
    /\ [][ (program = "aifoundry_host" /\ cleanups >= 1 /\ cleanups' = cleanups + 1) =>
               (routing_agent' = routing_agent /\ agent' = agent) ]_vars
    /\ [][ (program = "remote_agent" /\ cleanups' = cleanups + 1) =>
               /\ self_agent' = "None"
               /\ self_agent = "None" => UNCHANGED <<host_vars, items>> ]_vars

\* C8 witness: cleanup_routing_agent has been called twice on an initialized
\* application.
C8_Witness ==
    /\ program = "aifoundry_host"
    /\ cleanups = 2
    /\ agent.cleanup_calls = 1
    /\ routing_agent = "None"

\* C9 as claimed: with a configured address reachable, initialization
\* succeeds and the registry holds exactly the reachable agents' cards.
InitializationOver == program = "aifoundry_host" /\ phase \in {"failed", "serving", "closed"}

C9_InitializeSucceeds ==
    (InitializationOver /\ Configured \cap reachable # {}) =>
        /\ phase # "failed"
        /\ agent.cards = Configured \cap reachable

\* C9 as amended: with a configured address reachable, the registry is built
\* and holds exactly the reachable agents' cards, and initialization succeeds
\* unless the creation of the Azure agent fails; with none reachable
\* initialization fails.
C9_RegistryOfReachable ==
    InitializationOver =>
        IF Configured \cap reachable # {}
        THEN /\ agent.created
             /\ agent.cards = Configured \cap reachable
             /\ phase = "failed" <=> ~agent.azure_agent
        ELSE phase = "failed" /\ ~agent.created

\* C9 witness: the application serves with the one reachable agent of the two
\* configured.
C9_Witness ==
    /\ program = "aifoundry_host"
    /\ phase = "serving"
    /\ Cardinality(agent.cards) = 1
    /\ Cardinality(Configured \cap reachable) = 1

C11_OnlyWhenReady ==
    /\ [][ \A c \in Call :
              (calls[c].pc = "queued" /\ calls'[c].pc # "queued") =>
                  IF routing_agent = "None"
                  THEN /\ calls'[c].pc = "done"
                       /\ calls'[c].response = "none"
                       /\ calls'[c].yielded =
                              <<ChatMessage("not_initialized", NotInitializedText)>>
                  ELSE /\ calls'[c].pc = "awaiting"
                       /\ agent.azure_agent ]_vars
    /\ [][ (program = "remote_agent" /\ pc = "idle" /\ pc' # "idle") =>
              IF self_agent = "None"
              THEN /\ items' = <<AgentNotInitializedItem>>
                   /\ ~items'[1].is_task_complete
              ELSE \A k \in 1..Len(items') : items'[k] # AgentNotInitializedItem ]_vars
    /\ [](\A c \in Call : calls[c].response # "none" =>
              calls[c].yielded[1] = ChatMessage("processing", ProcessingText))

\* C11 witness: after the cleanup of a served application a submitted message
\* was answered with the "not initialized" error alone.
C11_Witness ==
    /\ program = "aifoundry_host"
    /\ phase = "closed"
    /\ routing_agent = "None"
    /\ \E c \in Call :
          /\ calls[c].pc = "done"
          /\ calls[c].response = "none"
          /\ calls[c].yielded = <<ChatMessage("not_initialized", NotInitializedText)>>

\* C12: in a stream call of the remote agent an item with is_task_complete
\* true is yielded only once the underlying stream has closed without an
\* exception, is the last item (so at most one, after every text item), and
\* a stream that closed ends on it; when Runner.run_streamed or the stream
\* raises, no item is complete and the last item is the error item.
StreamCall == program = "remote_agent" /\ pc \in {"streaming", "exhausted"}

C12_CompletionLast ==
    StreamCall =>
        /\ \A k \in 1..Len(items) :
              items[k].is_task_complete =>
                  /\ pc = "exhausted"
                  /\ i = Len(events)
                  /\ fault = "none"
                  /\ k = Len(items)
                  /\ items[k] = CompletionItem
        /\ (pc = "exhausted" /\ fault # "none") =>
              /\ Last(items) = ErrorItem
              /\ ~Last(items).is_task_complete
        /\ (pc = "exhausted" /\ fault = "none" /\ items # <<AgentNotInitializedItem>>) =>
              Last(items) = CompletionItem

\* C12 witness: a stream call has yielded two text items and then the
\* completion item.
C12_Witness ==
    /\ StreamCall
    /\ pc = "exhausted"
    /\ Len(items) = 3
    /\ ~items[1].is_task_complete
    /\ ~items[2].is_task_complete
    /\ items[3] = CompletionItem

\* C13 as claimed: when the event stream or the handling of an event raises,
\* no exception leaves the handler and the turn's answer (its last message)
\* is the placeholder, whatever had been accumulated before the error.
StreamFailed == TurnDone /\ fault \in {"event", "stream"}

C13_PlaceholderAfterError ==
    StreamFailed =>
        /\ ~raised
        /\ yielded # <<>>
        /\ Last(yielded).content = NoResponseText

\* C13 as amended: when the event stream or the handling of an event raises,
\* no exception leaves the handler, and the turn's answer is the placeholder
\* exactly when nothing had been accumulated before the error; with text
\* accumulated the placeholder is not yielded at all, and the answer is what
\* the fallback yielded or else the text streamed last.
C13_PlaceholderOnlyIfNothingAccumulated ==
    StreamFailed =>
        /\ ~raised
        /\ yielded # <<>>
        /\ Last(yielded).content = NoResponseText <=> accumulated_text = <<>>
        /\ accumulated_text # <<>> =>
              /\ \A k \in 1..Len(yielded) : yielded[k].site # "placeholder"
              /\ Last(yielded).site \in {"fallback", "stream"}

\* C13 witness: after 'Hel' was streamed the handling of an event raised, and
\* the turn ended on a message that is not the placeholder.
C13_Witness ==
    /\ StreamFailed
    /\ fault = "event"
    /\ accumulated_text = <<"Hel">>
    /\ Last(yielded).content # NoResponseText

\* C14: within a turn the placeholder is yielded only if no message with
\* content was yielded before it; in particular never after the fallback
\* yielded the run's final result.
C14_PlaceholderOnlyAlone ==
    program = "openai_host" =>
        \A k \in 1..Len(yielded) :
            yielded[k].site = "placeholder" =>
                \A j \in 1..(k - 1) : yielded[j].content = <<>>

\* C15: the url of the agent card a remote agent serves names the host and
\* the port main was given, the address the server listens at.
C15_CardAdvertisesServer ==
    (program = "agent_server" /\ pc = "serving") =>
        /\ agent_card.url.host = listening.host
        /\ agent_card.url.port = listening.port
        /\ listening = [host |-> host, port |-> port]

====
